---- MODULE Spec2Model ----
(***************************************************************************)
(* A model of src/src/NeuralNetwork.py: the classes Layer and              *)
(* NeuralNetwork.  The neuron unit (Perceptron) and the activation         *)
(* provider (Math) are imported by that file; they are modelled here from  *)
(* sections 3 and 4.1 of the specification, over the integers.             *)
(*                                                                         *)
(* Python lists are sequences; Python index i is index i + 1 here.  A      *)
(* Layer object is a record [neurons, inputs]; the field inputs is << >>   *)
(* while the attribute is None.  A neuron is a record                      *)
(* [dimension, weights, output, delta].  An exception is named with the    *)
(* source line that raises it.                                             *)
(*                                                                         *)
(* Widths, input_count and label_count are positive, an instance holds     *)
(* input_count features and then an integer label (int() is the identity   *)
(* on it), and a caller may go on using a network after an exception.      *)
(***************************************************************************)
EXTENDS Integers, Sequences, FiniteSets, TLC

(***************************************************************************)
(* Bounds of the model.                                                    *)
(***************************************************************************)
MaxHidden == 1
MaxWidth == 2
MaxInput == 1
MaxLabel == 2
MaxIter == 1
MaxData == 2
MaxCalls == 2
MaxBuild == 2

\* The seeds of the random initial weights, and those of the datasets.
Seeds == {0, 1}
BuildSeeds == {0}
DataSeeds == 0..5

VARIABLES
    neurons,      \* the caller's list object passed as `neurons`
    hidden,       \* the hidden_layers argument of the last construction
    input_count,  \* the input_count argument of the last construction
    passedLen,    \* the length of `neurons` when the last construction began
    built,        \* how many constructions have run
    weights,      \* the weights argument of the last construction
    buildErr,     \* how the last construction ended: "none" or the exception
    layers,       \* self.__layers__; << >> while no network exists
    iteration,    \* self.__iteration__
    label_count,  \* self.__label_count__
    instances,    \* the caller's dataset
    pc,           \* where train_instance stands: idle, forward, backward, update
    k,            \* the layer the current loop of train_instance is at
    inputs,       \* the local variable `inputs` of train_instance
    cur,          \* the instance train_instance is working on
    pass,         \* train: the passes completed (the loop variable `_`)
    pos,          \* train: the index of the current instance in the dataset
    lastOp,       \* the public method called last
    calls,        \* how many public methods have been called
    err,          \* the exception the last call raised, or "none"
    ret,          \* what the last test_instance or test returned
    cycles,       \* the train_instance cycles completed in the last call
    trace,        \* the layer steps taken by the current train_instance
    snap,         \* the weights when the current train_instance began
    stale         \* the inputs layer 0 held when the current train_instance began

vars == <<neurons, hidden, input_count, passedLen, built, weights, buildErr,
          layers, iteration, label_count, instances, pc, k, inputs, cur, pass,
          pos, lastOp, calls, err, ret, cycles, trace, snap, stale>>

(***************************************************************************)
(* Helpers on sequences.                                                   *)
(***************************************************************************)
Min2(a, b) == IF a <= b THEN a ELSE b

RECURSIVE SumSeq(_)
SumSeq(s) == IF s = << >> THEN 0 ELSE Head(s) + SumSeq(Tail(s))

\* Python's zip of two lists: as long as the shorter one.
Zip(a, b) == [i \in 1..Min2(Len(a), Len(b)) |-> <<a[i], b[i]>>]

\* Python's max(list) of a non-empty list.
RECURSIVE MaxOf(_)
MaxOf(s) ==
    IF Len(s) = 1 THEN s[1]
    ELSE LET m == MaxOf(Tail(s)) IN IF s[1] >= m THEN s[1] ELSE m

\* A variant of IndexOf: the last position holding v.
RECURSIVE IndexOfLast(_, _)
IndexOfLast(s, v) ==
    IF s[Len(s)] = v THEN Len(s) - 1 ELSE IndexOfLast(SubSeq(s, 1, Len(s) - 1), v)

\* Python's list.index(v): the first position holding v, counted from 0.
RECURSIVE IndexOf(_, _)
IndexOf(s, v) == IF Head(s) = v THEN 0 ELSE 1 + IndexOf(Tail(s), v)

\* All sequences over S of length at most n.
SeqsUpTo(S, n) == UNION {[1..m -> S] : m \in 0..n}

(***************************************************************************)
(* Math: the activation and its derivative, taken at the neuron's output.  *)
(* An integer ramp stands for the pluggable nonlinearity.                  *)
(***************************************************************************)
ActCap == 2

activation(z) == IF z > ActCap THEN ActCap ELSE IF z < -ActCap THEN -ActCap ELSE z

activation_partial(y) == IF y < ActCap /\ y > -ActCap THEN 1 ELSE 0

(***************************************************************************)
(* Perceptron: one weight per input and the bias weight last.              *)
(***************************************************************************)
LearningRate == 1

\* The random initial weight of weight i of neuron j of layer l.
RandomWeight(seed, l, j, i) == ((seed + l + 2 * j + i) % 3) - 1

\* weights = << >> stands for None: the weights are then drawn at random (rnd).
Perceptron(dimension, ws, rnd) ==
    [dimension |-> dimension,
     weights |-> IF ws = << >> THEN [i \in 1..(dimension + 1) |-> rnd[i]] ELSE ws,
     output |-> 0,
     delta |-> 0]

compute_output(n, xs) ==
    [n EXCEPT !.output =
        activation(n.weights[Len(n.weights)]
                   + SumSeq([i \in 1..Len(xs) |-> n.weights[i] * xs[i]]))]

compute_delta(n, downstream) ==
    [n EXCEPT !.delta = downstream * activation_partial(n.output)]

weight_delta(n) == [i \in 1..Len(n.weights) |-> n.weights[i] * n.delta]

update_weight(n, xs) ==
    [n EXCEPT !.weights =
        [i \in 1..Len(n.weights) |->
            n.weights[i] + LearningRate * n.delta * (IF i <= Len(xs) THEN xs[i] ELSE 1)]]

(***************************************************************************)
(* Layer.  An optional argument is a record [given, rows]; given is FALSE  *)
(* for None.                                                               *)
(***************************************************************************)
None == [given |-> FALSE, rows |-> << >>]

Some(rows) == [given |-> TRUE, rows |-> rows]

\* Layer.__init__ of layer l: [err, layer].
LayerInit(dimension, previous_layer_dimension, w, seed, l) ==
    LET ws == IF ~w.given THEN [i \in 1..dimension |-> << >>] ELSE w.rows
    IN  IF Len(ws) # dimension
        THEN [err |-> "AssertionError@28", layer |-> [neurons |-> << >>, inputs |-> << >>]]
        ELSE [err |-> "none",
              layer |->
                [neurons |->
                    [i \in 1..dimension |->
                        Perceptron(previous_layer_dimension, ws[i],
                                   [m \in 1..(previous_layer_dimension + 1) |->
                                        RandomWeight(seed, l, i, m)])],
                 inputs |-> << >>]]

\* A variant of LayerForward: inputs already cached are kept.
LayerForwardKeepInputs(layer, xs) ==
    [neurons |-> [i \in 1..Len(layer.neurons) |-> compute_output(layer.neurons[i], xs)],
     inputs |-> IF layer.inputs = << >> THEN xs ELSE layer.inputs]

\* A variant of LayerForward: the neurons also update their weights.
LayerForwardLearning(layer, xs) ==
    [neurons |->
        [i \in 1..Len(layer.neurons) |->
            update_weight(compute_output(layer.neurons[i], xs), xs)],
     inputs |-> xs]

\* Layer.forward: the layer after the call; its return value is Outputs of it.
Outputs(layer) == [i \in 1..Len(layer.neurons) |-> layer.neurons[i].output]

LayerForward(layer, xs) ==
    [neurons |-> [i \in 1..Len(layer.neurons) |-> compute_output(layer.neurons[i], xs)],
     inputs |-> xs]

\* Layer.backward: the assertion, the layer after the call and the value returned.
BackwardAccepts(layer, downstream) == Len(layer.neurons) = Len(downstream)

LayerBackward(layer, downstream) ==
    [layer EXCEPT !.neurons =
        [i \in 1..Len(layer.neurons) |-> compute_delta(layer.neurons[i], downstream[i])]]

\* reduce(lambda a, b: [x + y for x, y in zip(a, b)], rows), rows not empty.
RECURSIVE ReduceSum(_)
ReduceSum(rows) ==
    IF Len(rows) = 1 THEN rows[1]
    ELSE LET a == ReduceSum(SubSeq(rows, 1, Len(rows) - 1))
             z == Zip(a, rows[Len(rows)])
         IN  [i \in 1..Len(z) |-> z[i][1] + z[i][2]]

BackwardReturn(layer) ==
    ReduceSum([i \in 1..Len(layer.neurons) |-> weight_delta(layer.neurons[i])])

LayerUpdateWeights(layer) ==
    [layer EXCEPT !.neurons =
        [i \in 1..Len(layer.neurons) |-> update_weight(layer.neurons[i], layer.inputs)]]

(***************************************************************************)
(* NeuralNetwork.__init__.                                                 *)
(***************************************************************************)
\* A variant of DimensionChain: input_count is not put in front.
DimensionChainSelf(ic, ns) == Zip(ns, ns)

\* zip(neurons, [input_count] + neurons): the (dimension, previous) pairs.
DimensionChain(ic, ns) == Zip(ns, <<ic>> \o ns)

\* A variant of AppendLabel: the caller's list is left as it was.
AppendLabelDropped(ns, lc) == ns

\* A variant of LengthCheck: the length is compared with hidden_layers.
LengthCheckHidden(ns, layer_num) == Len(ns) = layer_num - 1

\* neurons.append(label_count): the caller's list object after it.
AppendLabel(ns, lc) == Append(ns, lc)

\* assert len(neurons) == self.__layer_num__
LengthCheck(ns, layer_num) == Len(ns) = layer_num

\* The result of the constructor: the caller's list after the call, the
\* exception raised ("none": the object exists) and the layers built.
NeuralNetworkInit(it, ic, lc, hidden_layers, ns, w, seed) ==
    LET layer_num == hidden_layers + 1
        ns2 == AppendLabel(ns, lc)
        ws == IF ~w.given THEN [i \in 1..layer_num |-> None] ELSE w.rows
        chain == DimensionChain(ic, ns2)
        built1(i) == LayerInit(chain[i][1], chain[i][2], ws[i], seed, i)
        bad(i) == i > Len(ws) \/ built1(i).err # "none"
        badSet == {i \in 1..Len(chain) : bad(i)}
        first == CHOOSE i \in badSet : \A j \in badSet : i <= j
    IN  IF ~LengthCheck(ns2, layer_num)
        THEN [neurons |-> ns2, err |-> "AssertionError@109", layers |-> << >>]
        ELSE IF badSet # {}
        THEN [neurons |-> ns2,
              err |-> IF first > Len(ws) THEN "IndexError@113" ELSE "AssertionError@28",
              layers |-> << >>]
        ELSE [neurons |-> ns2, err |-> "none",
              layers |-> [i \in 1..Len(chain) |-> built1(i).layer]]

(***************************************************************************)
(* NeuralNetwork: the forward pass, test_instance and test.                *)
(***************************************************************************)
Features(instance) == SubSeq(instance, 1, Len(instance) - 1)

Label(instance) == instance[Len(instance)]

Weights(lyrs) ==
    [l \in 1..Len(lyrs) |-> [j \in 1..Len(lyrs[l].neurons) |-> lyrs[l].neurons[j].weights]]

\* for layer in self.__layers__: inputs = layer.forward(inputs), from layer l on.
RECURSIVE ForwardAll(_, _, _)
ForwardAll(lyrs, xs, l) ==
    IF l > Len(lyrs) THEN lyrs
    ELSE LET done == LayerForward(lyrs[l], xs)
         IN  ForwardAll([lyrs EXCEPT ![l] = done], Outputs(done), l + 1)

\* test_instance: the layers after the call and the value returned.
TestInstance(lyrs, instance) ==
    LET after == ForwardAll(lyrs, Features(instance), 1)
        out == Outputs(after[Len(after)])
    IN  [layers |-> after, result |-> (Label(instance) = IndexOf(out, MaxOf(out)))]

\* A variant of TestLoop: every instance is counted.
RECURSIVE TestLoopCountAll(_, _, _, _)
TestLoopCountAll(lyrs, data, i, positive) ==
    IF i > Len(data) THEN [layers |-> lyrs, positive |-> positive]
    ELSE TestLoopCountAll(TestInstance(lyrs, data[i]).layers, data, i + 1, positive + 1)

\* The loop of test over the dataset from position i on.
RECURSIVE TestLoop(_, _, _, _)
TestLoop(lyrs, data, i, positive) ==
    IF i > Len(data) THEN [layers |-> lyrs, positive |-> positive]
    ELSE LET t == TestInstance(lyrs, data[i])
         IN  TestLoop(t.layers, data, i + 1, IF t.result THEN positive + 1 ELSE positive)

\* test: positive / len(instances), kept as the pair of numerator and denominator.
Test(lyrs, data) ==
    LET loop == TestLoop(lyrs, data, 1, 0)
    IN  IF Len(data) = 0
        THEN [layers |-> loop.layers, err |-> "ZeroDivisionError@176", num |-> 0, den |-> 1]
        ELSE [layers |-> loop.layers, err |-> "none",
              num |-> loop.positive, den |-> Len(data)]

(***************************************************************************)
(* NeuralNetwork.train_instance, one layer step at a time.                 *)
(***************************************************************************)
\* A variant of Phases: the weights are updated before the backward loop.
PhasesUpdateFirst == <<"forward", "update", "backward">>

\* The three loops of train_instance, in the order they run.
Phases == <<"forward", "backward", "update">>

\* The layer the n-th step of a loop over L layers works on.
ForwardOrder(L, n) == n

BackwardOrder(L, n) == L + 1 - n

UpdateOrder(L, n) == n

LayerAt(phase, L, n) ==
    IF phase = "forward" THEN ForwardOrder(L, n)
    ELSE IF phase = "backward" THEN BackwardOrder(L, n)
    ELSE UpdateOrder(L, n)

PhaseAfter(phase) ==
    IF phase = Phases[1] THEN Phases[2]
    ELSE IF phase = Phases[2] THEN Phases[3]
    ELSE "idle"

\* labels = [0 ...]; labels[label] = 1, a negative label counting from the end.
LabelInRange(label, lc) == label < lc /\ label >= -lc

OneHot(label, lc) ==
    [i \in 1..lc |-> IF i = (IF label < 0 THEN lc + label ELSE label) + 1 THEN 1 ELSE 0]

\* [target - output for target, output in zip(labels, inputs)]
ErrorSeed(labels, out) ==
    LET z == Zip(labels, out) IN [i \in 1..Len(z) |-> z[i][1] - z[i][2]]

\* The start of train_instance(instance): the label is encoded and the
\* forward loop is entered, or the encoding raises IndexError.
Begin(instance) ==
    IF LabelInRange(Label(instance), label_count)
    THEN [pc |-> Phases[1], k |-> 1, inputs |-> Features(instance), err |-> "none"]
    ELSE [pc |-> "idle", k |-> 1, inputs |-> << >>, err |-> "IndexError@130"]

\* One layer step of the current phase: the layers and `inputs` after it.
StepLayers(phase, l) ==
    IF phase = "forward" THEN [layers EXCEPT ![l] = LayerForward(@, inputs)]
    ELSE IF phase = "backward" THEN [layers EXCEPT ![l] = LayerBackward(@, inputs)]
    ELSE [layers EXCEPT ![l] = LayerUpdateWeights(@)]

StepInputs(phase, l, after, last) ==
    IF phase = "forward"
    THEN IF last THEN ErrorSeed(OneHot(Label(cur), label_count), Outputs(after[l]))
         ELSE Outputs(after[l])
    ELSE IF phase = "backward" THEN BackwardReturn(after[l])
    ELSE inputs

\* train: the (pass, pos) of the instance after the one at (p, i), in a
\* dataset of n instances; pass = iteration when the loops are over.
NextPosition(p, i, n) ==
    IF i + 1 < n THEN [pass |-> p, pos |-> i + 1]
    ELSE IF p + 1 < iteration THEN [pass |-> p + 1, pos |-> 0]
    ELSE [pass |-> iteration, pos |-> 0]

(***************************************************************************)
(* The states the caller starts from.                                      *)
(***************************************************************************)
\* Instance i of the dataset of seed d: binary features, then a label in
\* -1..lc, so that labels outside [0, lc) occur.
Instance(ic, lc, d, i) ==
    [m \in 1..ic |-> (d + i + m) % 2] \o <<((d + 2 * i) % (lc + 2)) - 1>>

Datasets(ic, lc) ==
    {[i \in 1..n |-> Instance(ic, lc, d, i)] : d \in DataSeeds, n \in 0..MaxData}

NoReturn == [ok |-> FALSE, num |-> 0, den |-> 1]

Quiet ==
    /\ pc = "idle" /\ k = 1 /\ inputs = << >> /\ cur = << >>
    /\ pass = 0 /\ pos = 0 /\ lastOp = "none" /\ calls = 0
    /\ err = "none" /\ ret = NoReturn /\ cycles = 0 /\ trace = << >>

\* A caller holding a list of widths and no network yet.
InitBuild ==
    /\ neurons \in SeqsUpTo(1..MaxWidth, MaxHidden + 1)
    /\ hidden = 0 /\ input_count = 1 /\ passedLen = 0 /\ built = 0
    /\ weights = None
    /\ buildErr = "none" /\ layers = << >> /\ iteration = 0 /\ label_count = 1
    /\ instances = << >> /\ snap = << >> /\ stale = << >>
    /\ Quiet

\* A caller holding a dataset and a network built with random weights.
Init ==
    \E h \in 0..MaxHidden, ic \in 1..MaxInput, lc \in 1..MaxLabel,
       it \in 0..MaxIter, seed \in Seeds :
      \E ns \in [1..h -> 1..MaxWidth] :
        LET r == NeuralNetworkInit(it, ic, lc, h, ns, None, seed)
        IN  /\ neurons = r.neurons
            /\ hidden = h /\ input_count = ic /\ passedLen = h /\ built = 1
            /\ weights = None
            /\ buildErr = r.err /\ layers = r.layers
            /\ iteration = it /\ label_count = lc
            /\ instances \in Datasets(ic, lc)
            /\ snap = Weights(r.layers) /\ stale = << >>
            /\ Quiet

buildVars == <<neurons, hidden, input_count, passedLen, built, weights, buildErr,
               iteration, label_count, instances>>

runVars == <<pc, k, inputs, cur, pass, pos, lastOp, calls, err, ret, cycles, trace>>

(***************************************************************************)
(* The caller constructs a network, passing its list object.               *)
(***************************************************************************)
\* The shapes of preset weights a caller passes for the widths ns: the
\* fitting one, one with None for layer 0, one a layer short, one a layer
\* long, and one with a weight list too many for layer 0.
Shapes(ns) ==
    {ns, [ns EXCEPT ![1] = 0], SubSeq(ns, 1, Len(ns) - 1), Append(ns, 1),
     [ns EXCEPT ![1] = @ + 1]}

\* Preset weights: shape[i] weight lists for layer i, each as long as the
\* layer's neurons need, and None for a layer where shape[i] = 0.
Preset(shape, ic, ns, seed) ==
    Some([i \in 1..Len(shape) |->
            IF shape[i] = 0 THEN None ELSE
            Some([j \in 1..shape[i] |->
                    [m \in 1..((<<ic>> \o ns)[Min2(i, Len(ns) + 1)] + 1) |->
                        RandomWeight(seed, i, j, m)]])])

Construct ==
    /\ built < MaxBuild
    /\ \E h \in 0..MaxHidden, ic \in 1..MaxInput, lc \in 1..MaxLabel,
          it \in {MaxIter}, seed \in BuildSeeds :
         \E w \in {None} \cup {Preset(sh, ic, Append(neurons, lc), seed) :
                                 sh \in Shapes(Append(neurons, lc))} :
           LET r == NeuralNetworkInit(it, ic, lc, h, neurons, w, seed)
           IN  /\ neurons' = r.neurons
               /\ hidden' = h /\ input_count' = ic /\ passedLen' = Len(neurons)
               /\ built' = built + 1 /\ weights' = w
               /\ buildErr' = r.err /\ layers' = r.layers
               /\ iteration' = it /\ label_count' = lc
               /\ snap' = Weights(r.layers)
    /\ UNCHANGED <<instances, runVars, stale>>

(***************************************************************************)
(* The caller uses the network.                                            *)
(***************************************************************************)
CanCall == pc = "idle" /\ calls < MaxCalls /\ buildErr = "none" /\ layers # << >>

\* What entering train_instance(instance) does to the position variables.
Enter(instance) ==
    LET b == Begin(instance)
    IN  /\ pc' = b.pc /\ k' = b.k /\ inputs' = b.inputs /\ err' = b.err
        /\ cur' = instance /\ trace' = << >>

TrainCall ==
    /\ CanCall
    /\ lastOp' = "train" /\ calls' = calls + 1 /\ cycles' = 0
    /\ pass' = 0 /\ pos' = 0
    /\ IF iteration > 0 /\ Len(instances) > 0
       THEN Enter(instances[1])
       ELSE /\ err' = "none"
            /\ UNCHANGED <<pc, k, inputs, cur, trace>>
    /\ snap' = Weights(layers) /\ stale' = layers[1].inputs
    /\ UNCHANGED <<buildVars, layers, ret>>

TrainInstanceCall ==
    /\ CanCall
    /\ \E i \in 1..Len(instances) : Enter(instances[i])
    /\ lastOp' = "train_instance" /\ calls' = calls + 1 /\ cycles' = 0
    /\ snap' = Weights(layers) /\ stale' = layers[1].inputs
    /\ UNCHANGED <<buildVars, layers, ret, pass, pos>>

\* The backward assertion fails: the exception leaves train_instance and train.
StepAbort ==
    /\ pc = "backward"
    /\ ~BackwardAccepts(layers[LayerAt(pc, Len(layers), k)], inputs)
    /\ pc' = "idle" /\ err' = "AssertionError@47"
    /\ UNCHANGED <<buildVars, layers, k, inputs, cur, pass, pos, lastOp, calls,
                   ret, cycles, trace, snap, stale>>

Step ==
    /\ pc \in {"forward", "backward", "update"}
    /\ LET L == Len(layers)
           l == LayerAt(pc, L, k)
           after == StepLayers(pc, l)
           nxt == NextPosition(pass, pos, Len(instances))
       IN  /\ pc = "backward" => BackwardAccepts(layers[l], inputs)
           /\ layers' = after
           /\ IF k < L
              THEN /\ pc' = pc /\ k' = k + 1
                   /\ inputs' = StepInputs(pc, l, after, FALSE)
                   /\ trace' = Append(trace, <<pc, l>>)
                   /\ UNCHANGED <<cur, pass, pos, err, cycles, snap, stale>>
              ELSE IF PhaseAfter(pc) # "idle"
              THEN /\ pc' = PhaseAfter(pc) /\ k' = 1
                   /\ inputs' = StepInputs(pc, l, after, TRUE)
                   /\ trace' = Append(trace, <<pc, l>>)
                   /\ UNCHANGED <<cur, pass, pos, err, cycles, snap, stale>>
              ELSE /\ cycles' = cycles + 1
                   /\ IF lastOp = "train" /\ nxt.pass < iteration
                      THEN /\ pass' = nxt.pass /\ pos' = nxt.pos
                           /\ Enter(instances[nxt.pos + 1])
                           /\ snap' = Weights(after) /\ stale' = after[1].inputs
                      ELSE /\ pc' = "idle" /\ k' = 1
                           /\ inputs' = StepInputs(pc, l, after, TRUE)
                           /\ trace' = Append(trace, <<pc, l>>)
                           /\ UNCHANGED <<cur, pass, pos, err, snap, stale>>
    /\ UNCHANGED <<buildVars, lastOp, calls, ret>>

TestInstanceCall ==
    /\ CanCall
    /\ \E i \in 1..Len(instances) :
         LET t == TestInstance(layers, instances[i])
         IN  /\ layers' = t.layers
             /\ ret' = [ok |-> t.result, num |-> 0, den |-> 1]
             /\ cur' = instances[i]
    /\ lastOp' = "test_instance" /\ calls' = calls + 1 /\ err' = "none"
    /\ UNCHANGED <<buildVars, pc, k, inputs, pass, pos, cycles, trace, snap, stale>>

TestCall ==
    /\ CanCall
    /\ LET t == Test(layers, instances)
       IN  /\ layers' = t.layers
           /\ err' = t.err
           /\ ret' = IF t.err = "none" THEN [ok |-> FALSE, num |-> t.num, den |-> t.den]
                     ELSE ret
    /\ lastOp' = "test" /\ calls' = calls + 1
    /\ UNCHANGED <<buildVars, pc, k, inputs, cur, pass, pos, cycles, trace, snap,
                   stale>>

Next ==
    \/ TrainCall
    \/ TrainInstanceCall
    \/ Step
    \/ StepAbort
    \/ TestInstanceCall
    \/ TestCall

Spec == Init /\ [][Next]_vars

NextBuild == Construct

SpecBuild == InitBuild /\ [][NextBuild]_vars

(***************************************************************************)
(* Construction: C2, C3, C9, under SpecBuild.                              *)
(***************************************************************************)
\* The preset weights fit the topology: None, or for each of the
\* hidden_layers + 1 layers either None or one weight list per neuron.
WeightsFit ==
    \/ ~weights.given
    \/ /\ Len(weights.rows) >= hidden + 1
       /\ \A i \in 1..(hidden + 1) :
            i <= Len(neurons) =>
                \/ ~weights.rows[i].given
                \/ Len(weights.rows[i].rows) = neurons[i]

C3_DimensionChained ==
    (built >= 1 /\ buildErr = "none") =>
        /\ Len(layers) = hidden + 1
        /\ \A l \in 1..Len(layers) :
             /\ Len(layers[l].neurons) >= 1
             /\ \A j \in 1..Len(layers[l].neurons) :
                  /\ layers[l].neurons[j].dimension =
                        (IF l = 1 THEN input_count ELSE Len(layers[l - 1].neurons))
                  /\ Len(layers[l].neurons[j].weights) =
                        layers[l].neurons[j].dimension + 1
             /\ l <= hidden => Len(layers[l].neurons) = neurons[l]
        /\ Len(layers[hidden + 1].neurons) = label_count

C3_Witness ==
    /\ built >= 1 /\ buildErr = "none" /\ hidden >= 1
    /\ neurons[1] # input_count /\ neurons[1] # label_count

\* C9 as stated: on a reused list the length assertion cannot fail.
C9_Original == built >= 2 => buildErr # "AssertionError@109"

\* C9 amended: every construction appends label_count to the caller's list
\* in place, also when it fails; the length assertion then fails exactly when
\* the list as passed, earlier appended widths included, is not
\* hidden_layers long, so reusing the list of a successful construction with
\* the same hidden_layers is rejected.
C9_ReusedListGrows ==
    [][built' = built + 1 =>
        /\ neurons' = Append(neurons, label_count')
        /\ (buildErr' = "AssertionError@109") <=> (Len(neurons) # hidden')
        /\ (built >= 1 /\ buildErr = "none" /\ hidden' = hidden)
              => buildErr' = "AssertionError@109"]_vars

C9_Witness ==
    /\ built = 2 /\ passedLen = hidden + 1 /\ Len(neurons) = hidden + 2
    /\ buildErr = "AssertionError@109"

(***************************************************************************)
(* Training and testing: C1, C4 - C8, C10, under Spec.                     *)
(***************************************************************************)
\* C1 as stated: every backward call of train_instance receives a downstream
\* vector with one entry per neuron of its layer, so the assertion of
\* Layer.backward never fails.
C1_BackwardLengthMatches ==
    /\ pc = "backward" =>
          Len(inputs) = Len(layers[LayerAt(pc, Len(layers), k)].neurons)
    /\ err # "AssertionError@47"

\* The output of the final layer, as its neurons cache it.
FinalOutput == Outputs(layers[Len(layers)])

\* C4: test_instance returns true exactly when the label is the lowest index
\* at which the final layer's output is greatest, and false for every other
\* label, one outside [0, label_count) included.
C4_FirstArgMax ==
    lastOp = "test_instance" =>
        /\ layers[1].inputs = Features(cur)
        /\ ret.ok <=>
              /\ Label(cur) \in 0..(Len(FinalOutput) - 1)
              /\ \A j \in 1..Len(FinalOutput) :
                    /\ FinalOutput[j] <= FinalOutput[Label(cur) + 1]
                    /\ j < Label(cur) + 1 => FinalOutput[j] < FinalOutput[Label(cur) + 1]

C4_Witness ==
    /\ lastOp = "test_instance" /\ ret.ok
    /\ \E j \in 1..Len(FinalOutput) :
          j # Label(cur) + 1 /\ FinalOutput[j] = FinalOutput[Label(cur) + 1]

\* The instances of the dataset for which test_instance returns true.
Positives == {i \in 1..Len(instances) : TestInstance(layers, instances[i]).result}

\* C5: test over N >= 1 instances of which P make test_instance return true
\* returns P / N, between 0 and 1; over no instance it raises
\* ZeroDivisionError.
C5_Fraction ==
    lastOp = "test" =>
        IF Len(instances) = 0 THEN err = "ZeroDivisionError@176"
        ELSE /\ err = "none"
             /\ ret.den = Len(instances)
             /\ ret.num = Cardinality(Positives)
             /\ 0 <= ret.num /\ ret.num <= ret.den

C5_Witness ==
    /\ lastOp = "test" /\ err = "none" /\ ret.den = 2 /\ ret.num = 1

\* Every label of the dataset is a class index in [0, label_count).
WellFormed ==
    \A i \in 1..Len(instances) : Label(instances[i]) \in 0..(label_count - 1)

\* C6 as stated: train over N instances with iteration = K ends having
\* completed exactly K * N train_instance cycles.
C6_AllCyclesRun ==
    (lastOp = "train" /\ pc = "idle" /\ WellFormed) =>
        /\ err = "none"
        /\ cycles = iteration * Len(instances)

\* The layer steps of one complete train_instance on L layers.
Canonical(L) ==
    [i \in 1..(3 * L) |->
        IF i <= L THEN <<"forward", i>>
        ELSE IF i <= 2 * L THEN <<"backward", 2 * L + 1 - i>>
        ELSE <<"update", i - 2 * L>>]

Downstream(l, j) ==
    IF l = Len(layers)
    THEN OneHot(Label(cur), label_count)[j] - layers[l].neurons[j].output
    ELSE SumSeq([m \in 1..Len(layers[l + 1].neurons) |->
                    snap[l + 1][m][j] * layers[l + 1].neurons[m].delta])

\* C8: whenever update_weights is about to run, every layer's cached inputs
\* and every neuron's cached output and delta come from the instance being
\* trained: layer 0 holds its features, layer k holds layer k-1's output, each
\* output is the activation of the pre-update weights applied to those inputs
\* and each delta is the downstream error times the derivative at that output.
C8_FreshCache ==
    pc = "update" =>
        \A l \in 1..Len(layers) :
            /\ layers[l].inputs =
                  (IF l = 1 THEN Features(cur) ELSE Outputs(layers[l - 1]))
            /\ \A j \in 1..Len(layers[l].neurons) :
                 LET n == layers[l].neurons[j]
                     w == snap[l][j]
                     x == layers[l].inputs
                 IN  /\ n.output =
                          activation(w[Len(w)] + SumSeq([i \in 1..Len(x) |-> w[i] * x[i]]))
                     /\ n.delta = Downstream(l, j) * activation_partial(n.output)

C8_Witness ==
    /\ pc = "update" /\ calls >= 2
    /\ stale # << >> /\ stale # Features(cur)
    /\ \E j \in 1..Len(layers[1].neurons) : layers[1].neurons[j].delta # 0

\* C10: a test_instance or test call leaves every weight of every neuron of
\* every layer as it was.
C10_TestKeepsWeights ==
    [][(calls' = calls + 1 /\ lastOp' \in {"test", "test_instance"})
          => Weights(layers') = Weights(layers)]_vars

C10_Witness ==
    /\ lastOp \in {"test", "test_instance"} /\ calls >= 2 /\ cycles >= 1
    /\ Weights(layers) # snap
    /\ layers[1].inputs # stale

====
